---------------------------- MODULE Spec2Model ----------------------------
(***************************************************************************)
(* Model of the $BERT flex bot: the wallet-data aggregation of             *)
(* solana_client.py (balance, price, history and rank lookups joined by    *)
(* asyncio.gather in get_wallet_data), the tenure label of                 *)
(* card_generator.py and the /flex handler of bot.py.                      *)
(*                                                                         *)
(* Conventions.                                                            *)
(*   - A nullable Python value is a sequence of length <= 1: None is <<>>  *)
(*     and a present value v is <<v>>.                                     *)
(*   - A Python str is a sequence of one-character strings.                *)
(*   - Token amounts, prices and liquidities are natural numbers of a      *)
(*     smallest unit, so that sums and products are exact.                 *)
(*   - Display strings that only format floats (balance_formatted,         *)
(*     usd_value_formatted, wallet_short) are not part of the snapshot     *)
(*     modelled here.                                                      *)
(***************************************************************************)
EXTENDS Integers, Sequences, FiniteSets, TLC

VARIABLES
    now,       \* wall clock (seconds) read by get_wallet_data
    pc,        \* position of each of the four gathered lookups
    resp,      \* responses each lookup has received from its remote calls
    res,       \* result returned by each finished lookup
    flex,      \* position of flex_command
    raised,    \* an exception escaped get_wallet_data into flex_command
    data,      \* the snapshot returned by get_wallet_data (nullable)
    rendered,  \* the snapshots handed to generate_flex_card, in order
    outcome,   \* the message flex_command ends with
    fin,       \* argument of the function under test (function harnesses)
    fout,      \* its result (nullable)
    proc,      \* the running bot process: its run number and its str hash
    cards,     \* the particle fields drawn so far, over all process runs
    _rate_limit,  \* bot._rate_limit: wallet -> time of its last accepted /flex
    fetches    \* the fetches started by accepted /flex requests, in order

vars ==
    <<now, pc, resp, res, flex, raised, data, rendered, outcome, fin, fout,
      proc, cards, _rate_limit, fetches>>

pipeVars == <<pc, resp, res, flex, raised, data, rendered, outcome>>

botVars == <<proc, cards, _rate_limit, fetches>>

---------------------------------------------------------------------------
(* Nullable values *)

None == <<>>

Some(v) == <<v>>

IsNone(o) == o = <<>>

Get(o) == o[1]

\* Python's `x or 0` on a nullable number
OrZero(o) == IF IsNone(o) \/ Get(o) = 0 THEN 0 ELSE Get(o)

---------------------------------------------------------------------------
(* Strings *)

Digits == <<"0", "1", "2", "3", "4", "5", "6", "7", "8", "9">>

DigitSet == {Digits[i] : i \in DOMAIN Digits}

DigitVal(c) == (CHOOSE i \in DOMAIN Digits : Digits[i] = c) - 1

RECURSIVE NatToStr(_)
NatToStr(n) ==
    IF n < 10 THEN <<Digits[n + 1]>>
    ELSE NatToStr(n \div 10) \o <<Digits[(n % 10) + 1]>>

\* f"{n}" of a Python int
IntToStr(n) == IF n < 0 THEN <<"-">> \o NatToStr(-n) ELSE NatToStr(n)

\* `c in s`
Contains(s, c) == \E i \in DOMAIN s : s[i] = c

\* s.split(c)[0]: the part of s before the first c (all of s if none)
SplitFirst(s, c) ==
    IF Contains(s, c)
    THEN SubSeq(s, 1, (CHOOSE i \in DOMAIN s :
                          s[i] = c /\ \A j \in 1..(i - 1) : s[j] # c) - 1)
    ELSE s

RECURSIVE Strip(_)
Strip(s) ==
    IF s = <<>> THEN s
    ELSE IF Head(s) = " " THEN Strip(Tail(s))
    ELSE IF s[Len(s)] = " " THEN Strip(SubSeq(s, 1, Len(s) - 1))
    ELSE s

RECURSIVE DigitsToNat(_)
DigitsToNat(s) ==
    IF s = <<>> THEN 0
    ELSE 10 * DigitsToNat(SubSeq(s, 1, Len(s) - 1)) + DigitVal(s[Len(s)])

AllDigits(s) == s # <<>> /\ \A i \in DOMAIN s : s[i] \in DigitSet

\* int(s): Some(value), or None where Python raises ValueError
ParseInt(s) ==
    IF AllDigits(s) THEN Some(DigitsToNat(s))
    ELSE IF s # <<>> /\ Head(s) = "-" /\ AllDigits(Tail(s))
         THEN Some(-DigitsToNat(Tail(s)))
    ELSE None

NewHolder == <<"N", "e", "w", " ", "h", "o", "l", "d", "e", "r">>

---------------------------------------------------------------------------
(* Hold duration (solana_client.get_wallet_data) and tenure label          *)
(* (card_generator._get_hands_label)                                       *)

SecondsPerHour == 60 * 60

SecondsPerDay == 24 * SecondsPerHour

\* timedelta.days and timedelta.seconds of (clock - first_buy)
DeltaDays(clock, first_buy) == (clock - first_buy) \div SecondsPerDay

DeltaSeconds(clock, first_buy) == (clock - first_buy) % SecondsPerDay

\* hold_duration of get_wallet_data: nullable string
HoldDuration(first_buy, clock) ==
    IF IsNone(first_buy) THEN None
    ELSE LET days == DeltaDays(clock, Get(first_buy))
             secs == DeltaSeconds(clock, Get(first_buy))
         IN  IF days >= 365
             THEN Some(IntToStr(days \div 365) \o <<"y", " ">>
                       \o IntToStr((days % 365) \div 30) \o <<"m">>)
             ELSE IF days >= 30
             THEN Some(IntToStr(days \div 30) \o <<"m", " ">>
                       \o IntToStr(days % 30) \o <<"d">>)
             ELSE Some(IntToStr(days) \o <<"d", " ">>
                       \o IntToStr(secs \div SecondsPerHour) \o <<"h">>)

\* `hold_duration or "New holder"` of the returned snapshot
HoldDurationField(first_buy, clock) ==
    LET h == HoldDuration(first_buy, clock)
    IN  IF IsNone(h) \/ Get(h) = <<>> THEN NewHolder ELSE Get(h)

\* mutant: tests the month component before the year component
HandsLabelMonthFirst(duration_str) ==
    IF duration_str = <<>> \/ duration_str = NewHolder THEN "NEW"
    ELSE IF Contains(duration_str, "m")
    THEN LET p == ParseInt(Strip(SplitFirst(duration_str, "m")))
             months == IF IsNone(p) THEN 0 ELSE Get(p)
         IN  IF months >= 6 THEN "DIAMOND"
             ELSE IF months >= 3 THEN "STRONG"
             ELSE "STEADY"
    ELSE IF Contains(duration_str, "y") THEN "OG DIAMOND"
    ELSE "FRESH"

_get_hands_label(duration_str) ==
    IF duration_str = <<>> \/ duration_str = NewHolder THEN "NEW"
    ELSE IF Contains(duration_str, "y") THEN "OG DIAMOND"
    ELSE IF Contains(duration_str, "m")
    THEN LET p == ParseInt(Strip(SplitFirst(duration_str, "m")))
             months == IF IsNone(p) THEN 0 ELSE Get(p)
         IN  IF months >= 6 THEN "DIAMOND"
             ELSE IF months >= 3 THEN "STRONG"
             ELSE "STEADY"
    ELSE "FRESH"

---------------------------------------------------------------------------
(* Remote calls and the outcome of a lookup *)

\* what a function body does: return a value or raise an exception
Return(v) == [exc |-> FALSE, val |-> v]

Raise == [exc |-> TRUE, val |-> None]

\* try: ... except Exception as e: print(...); return None
Catch(o) == IF o.exc THEN Return(None) ELSE o

\* An HTTP exchange ends in one of:
\*   transport - the connection fails (httpx.TransportError)
\*   timeout   - the per-call timeout expires (httpx.TimeoutException)
\*   malformed - the body is not JSON (resp.json() raises)
\*   error     - a JSON-RPC reply with an "error" member and no "result"
\*   ok        - a JSON reply carrying `value`
FailureKinds == {"transport", "timeout", "malformed"}

Failures == {[kind |-> k] : k \in FailureKinds}

ErrorReply == [kind |-> "error"]

Ok(v) == [kind |-> "ok", value |-> v]

\* _rpc_call / client.get raise for these replies
Raises(r) == r.kind \in FailureKinds

\* result.get("result", {}).get("value", []) and data.get("pairs", [])
ResultValue(r) == IF r.kind = "ok" THEN r.value ELSE <<>>

---------------------------------------------------------------------------
(* solana_client.get_token_balance *)

\* a token account of the reply; `parsed` is FALSE when the entry lacks
\* account.data.parsed.info.tokenAmount (the subscript raises KeyError)
TokenAccount(pubkey, uiAmount, parsed) ==
    [pubkey |-> pubkey, uiAmount |-> uiAmount, parsed |-> parsed]

RECURSIVE SumAmounts(_)
SumAmounts(accounts) ==
    IF accounts = <<>> THEN 0
    ELSE OrZero(Head(accounts).uiAmount) + SumAmounts(Tail(accounts))

BalanceBody(r) ==
    IF Raises(r) THEN Raise
    ELSE LET accounts == ResultValue(r)
         IN  IF accounts = <<>> THEN Return(Some(0))
             ELSE IF \E i \in DOMAIN accounts : ~accounts[i].parsed THEN Raise
             ELSE Return(Some(SumAmounts(accounts)))

\* mutant: the lookup without its try/except
BalanceUncaught(r) == BalanceBody(r)

\* mutant: an empty account list is reported like a failure
BalanceEmptyIsNull(r) ==
    IF ~Raises(r) /\ ResultValue(r) = <<>> THEN Return(None)
    ELSE Catch(BalanceBody(r))

get_token_balance(r) == Catch(BalanceBody(r))

---------------------------------------------------------------------------
(* solana_client.get_token_price *)

\* a member of a trading-pair record: missing, JSON null, or a number
Absent == [k |-> "absent"]

NullV == [k |-> "null"]

Num(n) == [k |-> "num", v |-> n]

\* float(d.get(key, 0)): 0 for a missing member, TypeError for null
FloatOr0(f) ==
    IF f.k = "absent" THEN Return(0)
    ELSE IF f.k = "null" THEN Raise
    ELSE Return(f.v)

\* float(pair.get("marketCap", 0) or pair.get("fdv", 0))
MarketCapOf(pair) ==
    IF pair.marketCap.k = "num" /\ pair.marketCap.v # 0
    THEN Return(pair.marketCap.v)
    ELSE FloatOr0(pair.fdv)

\* max(pairs, key=...) over keys already computed: the index of the first
\* element whose key no other element exceeds (Python keeps the earlier
\* element on ties), scanning left to right from `best`
RECURSIVE MaxScan(_, _, _)
MaxScan(keys, best, i) ==
    IF i > Len(keys) THEN best
    ELSE IF keys[i] > keys[best] THEN MaxScan(keys, i, i + 1)
    ELSE MaxScan(keys, best, i + 1)

\* mutant: a later pair of equal liquidity replaces the earlier one
MaxIndexLastWins(keys) ==
    CHOOSE i \in DOMAIN keys :
        /\ \A j \in DOMAIN keys : keys[j] <= keys[i]
        /\ \A j \in (i + 1)..Len(keys) : keys[j] < keys[i]

MaxIndex(keys) == MaxScan(keys, 1, 2)

\* mutant: a missing market cap and valuation leave the member null
ExtractPartial(pair) ==
    IF FloatOr0(pair.priceUsd).exc \/ FloatOr0(pair.change).exc
       \/ FloatOr0(pair.volume).exc
    THEN Raise
    ELSE Return(Some([price_usd |-> Some(FloatOr0(pair.priceUsd).val),
                      market_cap |-> IF MarketCapOf(pair).exc THEN None
                                     ELSE Some(MarketCapOf(pair).val),
                      price_change_24h |-> Some(FloatOr0(pair.change).val),
                      volume_24h |-> Some(FloatOr0(pair.volume).val)]))

\* the dict literal returned for the selected pair
ExtractPair(pair) ==
    IF FloatOr0(pair.priceUsd).exc \/ MarketCapOf(pair).exc
       \/ FloatOr0(pair.change).exc \/ FloatOr0(pair.volume).exc
    THEN Raise
    ELSE Return(Some([price_usd |-> Some(FloatOr0(pair.priceUsd).val),
                      market_cap |-> Some(MarketCapOf(pair).val),
                      price_change_24h |-> Some(FloatOr0(pair.change).val),
                      volume_24h |-> Some(FloatOr0(pair.volume).val)]))

PriceBody(r) ==
    IF Raises(r) THEN Raise
    ELSE LET pairs == ResultValue(r)
         IN  IF pairs = <<>> THEN Return(None)
             ELSE IF \E i \in DOMAIN pairs : FloatOr0(pairs[i].liquidity).exc
             THEN Raise
             ELSE ExtractPair(pairs[MaxIndex(
                      [i \in DOMAIN pairs |-> FloatOr0(pairs[i].liquidity).val])])

get_token_price(r) == Catch(PriceBody(r))

---------------------------------------------------------------------------
(* solana_client.get_first_buy_timestamp *)

\* the part before the second remote call: Some(outcome) when the function
\* ends there, None when it goes on to fetch the signatures
FirstBuyEarly(r1) ==
    IF Raises(r1) THEN Some(Raise)
    ELSE IF ResultValue(r1) = <<>> THEN Some(Return(None))
    ELSE None

\* sigs_result.get("result", []) is the list itself
FirstBuyBody(r1, r2) ==
    IF FirstBuyEarly(r1) # None THEN Get(FirstBuyEarly(r1))
    ELSE IF Raises(r2) THEN Raise
    ELSE LET signatures == ResultValue(r2)
         IN  IF signatures = <<>> THEN Return(None)
             ELSE LET block_time == signatures[Len(signatures)].blockTime
                  IN  IF IsNone(block_time) \/ Get(block_time) = 0
                      THEN Return(None)
                      ELSE Return(Some(Get(block_time)))

get_first_buy_timestamp(r1, r2) == Catch(FirstBuyBody(r1, r2))

---------------------------------------------------------------------------
(* solana_client.get_holder_rank *)

\* int(x) of the float n / d, d > 0: truncation toward zero
TruncDiv(n, d) == IF n >= 0 THEN n \div d ELSE -((-n) \div d)

\* mutant: the first tier starts at ratio >= 0.5
EstimateRankInclusive(user_balance, smallest_top) ==
    IF 2 * user_balance >= smallest_top
    THEN 20 + TruncDiv((smallest_top - user_balance) * 30, smallest_top)
    ELSE IF 10 * user_balance > smallest_top
    THEN 50 + TruncDiv((smallest_top - user_balance) * 200, smallest_top)
    ELSE 250 + TruncDiv((smallest_top - user_balance) * 1000, smallest_top)

\* est_rank for ratio = user_balance / smallest_top, both positive.
\* (1 - ratio) * k is computed exactly, which is what the float arithmetic
\* yields whenever smallest_top is a power of two (as in the inputs below).
EstimateRank(user_balance, smallest_top) ==
    IF 2 * user_balance > smallest_top
    THEN 20 + TruncDiv((smallest_top - user_balance) * 30, smallest_top)
    ELSE IF 10 * user_balance > smallest_top
    THEN 50 + TruncDiv((smallest_top - user_balance) * 200, smallest_top)
    ELSE 250 + TruncDiv((smallest_top - user_balance) * 1000, smallest_top)

\* for i, holder in enumerate(largest): the first 1-based position whose
\* address is the wallet's token account, 0 when there is none
RECURSIVE FindHolder(_, _, _)
FindHolder(largest, pubkey, i) ==
    IF i > Len(largest) THEN 0
    ELSE IF largest[i].address = pubkey THEN i
    ELSE FindHolder(largest, pubkey, i + 1)

RankData(rank, total_holders, top_20) ==
    [rank |-> rank, total_holders |-> total_holders, top_20 |-> top_20]

\* the part before the second remote call
RankEarly(r1) ==
    IF Raises(r1) THEN Some(Raise)
    ELSE IF ResultValue(r1) = <<>> THEN Some(Return(None))
    ELSE None

RankBody(r1, r2) ==
    IF RankEarly(r1) # None THEN Get(RankEarly(r1))
    ELSE IF Raises(r2) THEN Raise
    ELSE LET largest == ResultValue(r1)
             user_accounts == ResultValue(r2)
         IN  IF user_accounts = <<>>
             THEN Return(Some(RankData(None, [count |-> Len(largest)], FALSE)))
             ELSE IF ~user_accounts[1].parsed THEN Raise
             ELSE LET user_pubkey == user_accounts[1].pubkey
                      user_balance == OrZero(user_accounts[1].uiAmount)
                      pos == FindHolder(largest, user_pubkey, 1)
                      smallest_top == OrZero(largest[Len(largest)].uiAmount)
                  IN  IF pos # 0
                      THEN Return(Some(RankData(Some(pos), [text |-> "20+"], TRUE)))
                      ELSE IF user_balance > 0 /\ smallest_top > 0
                      THEN Return(Some(RankData(
                               Some(EstimateRank(user_balance, smallest_top)),
                               [text |-> "est."], FALSE)))
                      ELSE Return(Some(RankData(None, [text |-> "unknown"], FALSE)))

get_holder_rank(r1, r2) == Catch(RankBody(r1, r2))

---------------------------------------------------------------------------
(* solana_client.get_wallet_data: the merge after asyncio.gather *)

\* the characters of the display strings; an emoji is one character
Unranked == <<"U", "n", "r", "a", "n", "k", "e", "d">>

TopText(digits) == <<" ", "(", "T", "o", "p", " ">> \o digits \o <<")">>

\* mutant: the whale tier ends below rank 10
FormatRankExclusive(rank_data) ==
    IF IsNone(rank_data) \/ IsNone(Get(rank_data).rank) THEN Unranked
    ELSE LET rank == Get(Get(rank_data).rank)
         IN  IF rank < 10
             THEN <<"whale", " ", "#">> \o IntToStr(rank) \o TopText(<<"1", "0">>)
             ELSE IF rank <= 50
             THEN <<"shark", " ", "#">> \o IntToStr(rank) \o TopText(<<"5", "0">>)
             ELSE IF rank <= 100
             THEN <<"dolphin", " ", "#">> \o IntToStr(rank)
                      \o TopText(<<"1", "0", "0">>)
             ELSE <<"fish", " ", "~", "#">> \o IntToStr(rank)

\* solana_client._format_rank
_format_rank(rank_data) ==
    IF IsNone(rank_data) \/ IsNone(Get(rank_data).rank) THEN Unranked
    ELSE LET rank == Get(Get(rank_data).rank)
         IN  IF rank <= 10
             THEN <<"whale", " ", "#">> \o IntToStr(rank) \o TopText(<<"1", "0">>)
             ELSE IF rank <= 50
             THEN <<"shark", " ", "#">> \o IntToStr(rank) \o TopText(<<"5", "0">>)
             ELSE IF rank <= 100
             THEN <<"dolphin", " ", "#">> \o IntToStr(rank)
                      \o TopText(<<"1", "0", "0">>)
             ELSE <<"fish", " ", "~", "#">> \o IntToStr(rank)

\* rank_display of the snapshot: _format_rank(rank_data) if rank_data else
\* "Unranked"
RankDisplay(rank_data) ==
    IF IsNone(rank_data) THEN Unranked ELSE _format_rank(rank_data)

\* mutant: a zero balance counts as missing (`if balance and price_data`)
UsdValueTruthy(balance, price_data) ==
    IF ~IsNone(balance) /\ Get(balance) # 0 /\ ~IsNone(price_data)
    THEN Some(Get(balance) * Get(Get(price_data).price_usd))
    ELSE None

UsdValue(balance, price_data) ==
    IF ~IsNone(balance) /\ ~IsNone(price_data)
    THEN Some(Get(balance) * Get(Get(price_data).price_usd))
    ELSE None

\* the returned dict; price_data.get(k) if price_data else None
Snapshot(wallet, balance, price_data, first_buy, rank_data, clock) ==
    [wallet |-> wallet,
     balance |-> balance,
     price_usd |-> IF IsNone(price_data) THEN None ELSE Get(price_data).price_usd,
     usd_value |-> UsdValue(balance, price_data),
     market_cap |-> IF IsNone(price_data) THEN None ELSE Get(price_data).market_cap,
     price_change_24h |->
         IF IsNone(price_data) THEN None ELSE Get(price_data).price_change_24h,
     first_buy |-> first_buy,
     hold_duration |-> HoldDurationField(first_buy, clock),
     rank |-> IF IsNone(rank_data) THEN None ELSE Get(rank_data).rank,
     rank_display |-> RankDisplay(rank_data),
     top_20 |-> IF IsNone(rank_data) THEN FALSE ELSE Get(rank_data).top_20]

---------------------------------------------------------------------------
(* State shared by every specification *)

Lookups == {"balance", "price", "history", "rank"}

\* no /flex request is being handled
PipeIdle ==
    /\ pc = [k \in Lookups |-> "idle"]
    /\ resp = [k \in Lookups |-> <<>>]
    /\ res = [k \in Lookups |-> Return(None)]
    /\ flex = "idle"
    /\ raised = FALSE
    /\ data = None
    /\ rendered = <<>>
    /\ outcome = "none"

\* a process that has drawn no card and accepted no /flex request
\* (_rate_limit is the empty dict)
BotIdle ==
    /\ proc = [run |-> 0, strhash |-> <<>>]
    /\ cards = {}
    /\ _rate_limit = <<>>
    /\ fetches = <<>>

---------------------------------------------------------------------------
(* bot.flex_command after the cooldown check: one /flex request *)

\* mutant: only the failed lookup is filtered before rendering
RespondNoZeroCheck(snap) ==
    IF IsNone(snap.balance)
    THEN [outcome |-> "fetch_failed", rendered |-> <<>>]
    ELSE [outcome |-> "card", rendered |-> <<snap>>]

\* mutant: a card needs the price lookup too
RespondNeedsPrice(snap) ==
    IF IsNone(snap.balance) \/ IsNone(snap.price_usd)
    THEN [outcome |-> "fetch_failed", rendered |-> <<>>]
    ELSE IF Get(snap.balance) = 0
    THEN [outcome |-> "no_holdings", rendered |-> <<>>]
    ELSE [outcome |-> "card", rendered |-> <<snap>>]

\* what flex_command does with the snapshot: the message it ends with and
\* the snapshots it hands to generate_flex_card (which draws a card for any
\* snapshot: null price, market cap and history are rendered as defaults)
flex_command(snap) ==
    IF IsNone(snap.balance)
    THEN [outcome |-> "fetch_failed", rendered |-> <<>>]
    ELSE IF Get(snap.balance) = 0
    THEN [outcome |-> "no_holdings", rendered |-> <<>>]
    ELSE [outcome |-> "card", rendered |-> <<snap>>]

---------------------------------------------------------------------------
(* Replies the remote ends may give to one /flex request *)

Wallet == "W"

\* the wallet's i-th token account, and the i-th other holder's account
Pub(i) == <<"acct", i>>

Holder(i) == <<"holder", i>>

MaxAccounts == 2

PipeAmounts == {None, Some(0), Some(3)}

AccountEntries(i) ==
    {TokenAccount(Pub(i), a, TRUE) : a \in PipeAmounts}
        \cup {TokenAccount(Pub(i), None, FALSE)}

RECURSIVE AccountLists(_)
AccountLists(n) ==
    IF n = 0 THEN {<<>>}
    ELSE {Append(l, e) : l \in AccountLists(n - 1), e \in AccountEntries(n)}

BalanceReplies ==
    Failures \cup {ErrorReply}
        \cup {Ok(l) : l \in UNION {AccountLists(n) : n \in 0..MaxAccounts}}

Pair(liquidity, priceUsd, marketCap, fdv, change, volume) ==
    [liquidity |-> liquidity, priceUsd |-> priceUsd, marketCap |-> marketCap,
     fdv |-> fdv, change |-> change, volume |-> volume]

PriceReplies ==
    Failures \cup
    {Ok(<<>>),
     Ok(<<Pair(Num(5), Num(2), Num(9), Num(8), Num(1), Num(7))>>),
     Ok(<<Pair(Absent, Absent, Absent, Absent, Absent, Absent)>>),
     Ok(<<Pair(Num(5), NullV, Num(9), Num(8), Num(1), Num(7))>>),
     Ok(<<Pair(Num(5), Num(2), Absent, NullV, Num(1), Num(7))>>)}

PipeClock == 500 * SecondsPerDay

Sig(t) == [blockTime |-> t]

SigAgo(days) == Sig(Some(PipeClock - days * SecondsPerDay - SecondsPerHour))

HistoryAccountReplies ==
    Failures \cup {Ok(<<>>), Ok(<<TokenAccount(Pub(1), Some(3), TRUE)>>)}

SignatureReplies ==
    Failures \cup
    {ErrorReply, Ok(<<Sig(None)>>), Ok(<<SigAgo(3)>>),
     Ok(<<SigAgo(3), SigAgo(200)>>), Ok(<<SigAgo(3), SigAgo(400)>>)}

LargestAccount(address, uiAmount) == [address |-> address, uiAmount |-> uiAmount]

LargestReplies ==
    Failures \cup
    {Ok(<<>>),
     Ok(<<LargestAccount(Holder(1), Some(9)), LargestAccount(Pub(1), Some(8))>>),
     Ok(<<LargestAccount(Holder(1), Some(9)), LargestAccount(Holder(2), Some(4))>>),
     Ok(<<LargestAccount(Holder(1), Some(9)), LargestAccount(Holder(2), None)>>)}

RankAccountReplies ==
    Failures \cup
    {Ok(<<>>),
     Ok(<<TokenAccount(Pub(1), Some(3), TRUE)>>),
     Ok(<<TokenAccount(Pub(1), None, TRUE)>>),
     Ok(<<TokenAccount(Pub(1), None, FALSE)>>)}

---------------------------------------------------------------------------
(* The /flex request: asyncio.gather of the four lookups, then the merge   *)
(* and flex_command's answer                                               *)

Init ==
    /\ now = PipeClock
    /\ pc = [k \in Lookups |-> "call1"]
    /\ resp = [k \in Lookups |-> <<>>]
    /\ res = [k \in Lookups |-> Return(None)]
    /\ flex = "fetching"
    /\ raised = FALSE
    /\ data = None
    /\ rendered = <<>>
    /\ outcome = "none"
    /\ fin = None
    /\ fout = None
    /\ BotIdle

\* lookup k receives reply r and ends with outcome o
Finish(k, r, o) ==
    /\ resp' = [resp EXCEPT ![k] = Append(@, r)]
    /\ res' = [res EXCEPT ![k] = o]
    /\ pc' = [pc EXCEPT ![k] = "done"]

\* lookup k receives reply r and goes on to its second remote call
Proceed(k, r) ==
    /\ resp' = [resp EXCEPT ![k] = Append(@, r)]
    /\ pc' = [pc EXCEPT ![k] = "call2"]
    /\ UNCHANGED res

lookupFrame == <<now, flex, raised, data, rendered, outcome, fin, fout, botVars>>

BalanceCall ==
    /\ pc["balance"] = "call1"
    /\ \E r \in BalanceReplies : Finish("balance", r, get_token_balance(r))
    /\ UNCHANGED lookupFrame

PriceCall ==
    /\ pc["price"] = "call1"
    /\ \E r \in PriceReplies : Finish("price", r, get_token_price(r))
    /\ UNCHANGED lookupFrame

HistoryAccountsCall ==
    /\ pc["history"] = "call1"
    /\ \E r \in HistoryAccountReplies :
           IF FirstBuyEarly(r) # None
           THEN Finish("history", r, get_first_buy_timestamp(r, r))
           ELSE Proceed("history", r)
    /\ UNCHANGED lookupFrame

HistorySignaturesCall ==
    /\ pc["history"] = "call2"
    /\ \E r \in SignatureReplies :
           Finish("history", r, get_first_buy_timestamp(resp["history"][1], r))
    /\ UNCHANGED lookupFrame

RankLargestCall ==
    /\ pc["rank"] = "call1"
    /\ \E r \in LargestReplies :
           IF RankEarly(r) # None
           THEN Finish("rank", r, get_holder_rank(r, r))
           ELSE Proceed("rank", r)
    /\ UNCHANGED lookupFrame

RankAccountsCall ==
    /\ pc["rank"] = "call2"
    /\ \E r \in RankAccountReplies :
           Finish("rank", r, get_holder_rank(resp["rank"][1], r))
    /\ UNCHANGED lookupFrame

\* the lookups that have ended with an exception
Escaped == {k \in Lookups : pc[k] = "done" /\ res[k].exc}

\* mutant: the merge goes ahead as soon as the balance is known
JoinReadyOnBalance == pc["balance"] = "done"

\* `await asyncio.gather(...)` resumes: every lookup has returned
JoinReady == \A k \in Lookups : pc[k] = "done"

\* get_wallet_data returns (or an exception of a lookup passes through
\* gather into flex_command's except branch) and flex_command answers
Join ==
    /\ flex = "fetching"
    /\ JoinReady \/ Escaped # {}
    /\ flex' = "done"
    /\ IF Escaped # {}
       THEN /\ raised' = TRUE
            /\ outcome' = "error"
            /\ UNCHANGED <<data, rendered>>
       ELSE LET snap == Snapshot(Wallet, res["balance"].val, res["price"].val,
                                 res["history"].val, res["rank"].val, now)
            IN  /\ data' = Some(snap)
                /\ outcome' = flex_command(snap).outcome
                /\ rendered' = rendered \o flex_command(snap).rendered
                /\ UNCHANGED raised
    /\ UNCHANGED <<now, pc, resp, res, fin, fout, botVars>>

Next ==
    \/ BalanceCall
    \/ PriceCall
    \/ HistoryAccountsCall
    \/ HistorySignaturesCall
    \/ RankLargestCall
    \/ RankAccountsCall
    \/ Join

Spec == Init /\ [][Next]_vars

---------------------------------------------------------------------------
(* Properties of the /flex request *)

AllDone == \A k \in Lookups : pc[k] = "done"

\* some reply lookup k received is a transport error, a timeout or a
\* malformed body
Failed(k) == \E i \in DOMAIN resp[k] : Raises(resp[k][i])

\* what lookup k returns for the replies it received itself
OwnResult(k) ==
    CASE k = "balance" -> get_token_balance(resp[k][1])
      [] k = "price" -> get_token_price(resp[k][1])
      [] k = "history" -> get_first_buy_timestamp(resp[k][1], resp[k][Len(resp[k])])
      [] k = "rank" -> get_holder_rank(resp[k][1], resp[k][Len(resp[k])])

\* C1: generate_flex_card is invoked only with a snapshot whose balance is
\* strictly greater than 0; a snapshot with balance null or 0 ends in a
\* terminal message and is never rendered.
C1_RenderOnlyPositive ==
    /\ \A i \in DOMAIN rendered :
           ~IsNone(rendered[i].balance) /\ Get(rendered[i].balance) > 0
    /\ (data # None /\ (IsNone(Get(data).balance) \/ Get(Get(data).balance) = 0))
           => (rendered = <<>> /\ outcome \in {"fetch_failed", "no_holdings"})

\* a card has been rendered for a snapshot with a positive balance
C1_Witness ==
    /\ flex = "done"
    /\ rendered # <<>>
    /\ Get(rendered[1].balance) > 0

\* C2: a lookup that met a transport error, a timeout or a malformed reply
\* yields null for its own result only; every lookup's result is the one
\* its own replies determine, whatever the other lookups met; and no
\* exception leaves get_wallet_data.
C2_FailureIsolation ==
    /\ raised = FALSE
    /\ outcome # "error"
    /\ \A k \in Lookups :
           pc[k] = "done" =>
               /\ ~res[k].exc
               /\ Failed(k) => res[k] = Return(None)
               /\ res[k] = OwnResult(k)
    /\ data # None =>
           /\ AllDone
           /\ Get(data).balance = res["balance"].val
           /\ Get(data).first_buy = res["history"].val
           /\ IsNone(Get(data).price_usd) = IsNone(res["price"].val)
           /\ ~IsNone(res["price"].val) =>
                  Get(data).price_usd = Get(res["price"].val).price_usd
           /\ ~IsNone(res["rank"].val) =>
                  Get(data).rank = Get(res["rank"].val).rank

\* the balance lookup failed and the other three still delivered
C2_Witness ==
    /\ data # None
    /\ Failed("balance")
    /\ IsNone(Get(data).balance)
    /\ ~Failed("price") /\ ~IsNone(Get(data).price_usd)
    /\ ~Failed("history") /\ ~IsNone(Get(data).first_buy)
    /\ ~Failed("rank") /\ ~IsNone(Get(data).rank)

\* C3: the answer of a /flex request is decided by the balance alone:
\* fetch-failed exactly when balance is null, no-holdings exactly when it is
\* 0, and a card when it is positive, whatever the other lookups returned.
C3_OutcomeByBalance ==
    flex = "done" =>
        /\ data # None
        /\ (outcome = "fetch_failed") = IsNone(Get(data).balance)
        /\ (outcome = "no_holdings") = (Get(data).balance = Some(0))
        /\ (~IsNone(Get(data).balance) /\ Get(Get(data).balance) > 0)
               => (outcome = "card" /\ rendered = <<Get(data)>>)

\* a card was produced although price, history and rank all failed
C3_Witness ==
    /\ flex = "done"
    /\ outcome = "card"
    /\ Failed("price") /\ Failed("history") /\ Failed("rank")
    /\ IsNone(Get(data).price_usd)
    /\ IsNone(Get(data).first_buy)
    /\ IsNone(Get(data).rank)

\* C4: get_token_balance returns exactly 0 for a reply that lists no token
\* account and null for a call whose transport fails.
C4_ZeroVersusFailure ==
    pc["balance"] = "done" =>
        LET r == resp["balance"][1]
        IN  /\ (r.kind = "ok" /\ r.value = <<>>) => res["balance"] = Return(Some(0))
            /\ r.kind \in {"transport", "timeout"} => res["balance"] = Return(None)

\* the balance lookup has answered an empty account list with 0
C4_Witness ==
    /\ pc["balance"] = "done"
    /\ resp["balance"][1] = Ok(<<>>)
    /\ res["balance"].val = Some(0)

\* the remote call lookup k is waiting for completes
Step(k) ==
    CASE k = "balance" -> BalanceCall
      [] k = "price" -> PriceCall
      [] k = "history" -> HistoryAccountsCall \/ HistorySignaturesCall
      [] k = "rank" -> RankLargestCall \/ RankAccountsCall

\* C5: the four lookups are all started together, an unfinished lookup can
\* always take its next step whatever the others have done, and the
\* snapshot, the answer and the render exist only once all four are done.
C5_FanOutFanIn ==
    /\ \A k \in Lookups : pc[k] \in {"call1", "call2", "done"}
    /\ \A k \in Lookups : pc[k] # "done" => ENABLED Step(k)
    /\ (data # None \/ outcome # "none" \/ rendered # <<>> \/ flex = "done")
           => AllDone

\* the history lookup finished last, after the three others
C5_Witness ==
    /\ flex = "fetching"
    /\ pc["history"] = "call2"
    /\ \A k \in Lookups \ {"history"} : pc[k] = "done"

\* C6: usd_value is null whenever balance or price is null and is otherwise
\* exactly balance * price_usd.
C6_UsdValue ==
    data # None =>
        LET d == Get(data)
        IN  IF IsNone(d.balance) \/ IsNone(d.price_usd)
            THEN d.usd_value = None
            ELSE d.usd_value = Some(Get(d.balance) * Get(d.price_usd))

\* a snapshot with a positive balance and a positive price
C6_Witness ==
    /\ data # None
    /\ Get(data).balance = Some(6)
    /\ Get(data).price_usd = Some(2)
    /\ Get(data).usd_value = Some(12)

\* every member of the market record is set
FullRecord(rec) ==
    /\ ~IsNone(rec.price_usd)
    /\ ~IsNone(rec.market_cap)
    /\ ~IsNone(rec.price_change_24h)
    /\ ~IsNone(rec.volume_24h)

\* C8: get_token_price returns a record with all four members set or null
\* as a whole, and the snapshot's price_usd, market_cap and
\* price_change_24h are all null or all non-null.
C8_MarketDataAtomic ==
    /\ pc["price"] = "done" =>
           (IsNone(res["price"].val) \/ FullRecord(Get(res["price"].val)))
    /\ data # None =>
           LET d == Get(data)
           IN  /\ IsNone(d.price_usd) = IsNone(d.market_cap)
               /\ IsNone(d.price_usd) = IsNone(d.price_change_24h)

\* a pair with a usable price but an unusable valuation gave no market data
C8_Witness ==
    /\ data # None
    /\ resp["price"][1].kind = "ok"
    /\ resp["price"][1].value # <<>>
    /\ resp["price"][1].value[1].priceUsd.k = "num"
    /\ resp["price"][1].value[1].fdv.k = "null"
    /\ IsNone(Get(data).price_usd)
    /\ IsNone(Get(data).market_cap)
    /\ IsNone(Get(data).price_change_24h)

---------------------------------------------------------------------------
(* Function harness: hold duration composed with the tenure label *)

MaxDays == 800

\* seconds past the whole hour tried for each elapsed time
SecondOffsets == {0, SecondsPerHour - 1}

HoldInputs ==
    {None} \cup
    {Some([d |-> d, h |-> h, s |-> s]) :
        d \in 0..MaxDays, h \in 0..23, s \in SecondOffsets}

HoldClock == (MaxDays + 2) * SecondsPerDay

\* the first-acquired timestamp that lies the given time before HoldClock
FirstBuyOf(i) ==
    IF IsNone(i) THEN None
    ELSE Some(HoldClock - (Get(i).d * SecondsPerDay
                           + Get(i).h * SecondsPerHour + Get(i).s))

InitHold ==
    /\ PipeIdle
    /\ BotIdle
    /\ now = HoldClock
    /\ fin \in HoldInputs
    /\ fout = None

\* get_wallet_data's hold_duration field, then the renderer's label for it
ApplyHold ==
    /\ fout = None
    /\ LET hd == HoldDurationField(FirstBuyOf(fin), now)
       IN  fout' = Some([hold_duration |-> hd, label |-> _get_hands_label(hd)])
    /\ UNCHANGED <<now, fin, pipeVars, botVars>>

NextHold == ApplyHold

SpecHold == InitHold /\ [][NextHold]_vars

\* s is "<digits><a> <digits><b>"
IsForm(s, a, b) ==
    \E i \in 2..(Len(s) - 3) :
        /\ AllDigits(SubSeq(s, 1, i - 1))
        /\ s[i] = a
        /\ s[i + 1] = " "
        /\ AllDigits(SubSeq(s, i + 2, Len(s) - 1))
        /\ s[Len(s)] = b

\* the number a string of the form above starts with
LeadingNumber(s, a) == DigitsToNat(SplitFirst(s, a))

\* C9: for every whole-day count d >= 0 since first acquisition the
\* duration string and the tenure label are: d >= 365 -> "Yy Mm" and
\* OG DIAMOND; 30 <= d < 365 -> "Mm Dd" with M = d div 30 and DIAMOND
\* (M >= 6), STRONG (3 <= M < 6), STEADY (otherwise); d < 30 -> "Dd Hh" and
\* FRESH; a null first-acquired timestamp -> "New holder" and NEW.
C9_HoldBucketsAndLabel ==
    fout # None =>
        LET hd == Get(fout).hold_duration
            lab == Get(fout).label
        IN  IF IsNone(fin) THEN hd = NewHolder /\ lab = "NEW"
            ELSE LET d == Get(fin).d
                     M == d \div 30
                 IN  /\ d >= 365 => IsForm(hd, "y", "m") /\ lab = "OG DIAMOND"
                     /\ (30 <= d /\ d < 365) =>
                            /\ IsForm(hd, "m", "d")
                            /\ LeadingNumber(hd, "m") = M
                            /\ lab = IF M >= 6 THEN "DIAMOND"
                                     ELSE IF M >= 3 THEN "STRONG"
                                     ELSE "STEADY"
                     /\ d < 30 => IsForm(hd, "d", "h") /\ lab = "FRESH"

\* a holder of more than a year has been labelled
C9_Witness ==
    /\ fout # None
    /\ fin # None
    /\ Get(fin).d >= 365
    /\ Get(fout).label = "OG DIAMOND"

---------------------------------------------------------------------------
(* Function harness: get_token_price on lists of trading pairs *)

MaxPairs == 3

MaxLiquidity == 3

LiquidityValues == {Absent} \cup {Num(n) : n \in 0..MaxLiquidity}

\* the i-th pair of a reply quotes price i, so that the price returned
\* tells which pair was selected
PairAt(i, liquidity) == Pair(liquidity, Num(i), Num(i), Absent, Num(i), Num(i))

RECURSIVE PairLists(_)
PairLists(n) ==
    IF n = 0 THEN {<<>>}
    ELSE {Append(l, PairAt(n, q)) : l \in PairLists(n - 1), q \in LiquidityValues}

PriceInputs == {Ok(l) : l \in UNION {PairLists(n) : n \in 1..MaxPairs}}

InitPrice ==
    /\ PipeIdle
    /\ BotIdle
    /\ now = PipeClock
    /\ fin \in PriceInputs
    /\ fout = None

ApplyPrice ==
    /\ fout = None
    /\ fout' = Some(get_token_price(fin))
    /\ UNCHANGED <<now, fin, pipeVars, botVars>>

NextPrice == ApplyPrice

SpecPrice == InitPrice /\ [][NextPrice]_vars

\* the USD liquidity a pair reports (a pair that reports none counts as 0)
Reported(pair) == IF pair.liquidity.k = "num" THEN pair.liquidity.v ELSE 0

\* C7: for every non-empty list of pairs, in every order, the pair whose
\* data is returned has the highest reported USD liquidity, and among
\* several pairs of that liquidity it is the first of the list.
C7_HighestLiquidityFirstWins ==
    fout # None =>
        LET pairs == fin.value
            out == Get(fout).val
        IN  /\ ~Get(fout).exc
            /\ ~IsNone(out)
            /\ \E i \in DOMAIN pairs :
                   /\ Get(out).price_usd = Some(pairs[i].priceUsd.v)
                   /\ \A j \in DOMAIN pairs : Reported(pairs[j]) <= Reported(pairs[i])
                   /\ \A j \in 1..(i - 1) : Reported(pairs[j]) < Reported(pairs[i])

\* two pairs share the highest liquidity and the earlier one, which is not
\* the head of the list, was selected
C7_Witness ==
    /\ fout # None
    /\ Len(fin.value) = 3
    /\ Reported(fin.value[1]) < Reported(fin.value[2])
    /\ Reported(fin.value[2]) = Reported(fin.value[3])
    /\ Get(Get(fout).val).price_usd = Some(2)

---------------------------------------------------------------------------
(* Function harness: get_holder_rank on the replies of its two calls *)

MaxLargest == 3

MaxTopExp == 4

MaxUserAmount == 40

\* amount of the last (smallest) entry of the largest-holders list
TopAmounts == {None, Some(0)} \cup {Some(2 ^ e) : e \in 2..MaxTopExp}

\* a largest-holders list of n entries in descending order of amount, the
\* wallet's token account at position pos (0: not listed)
LargestList(n, pos, smallest) ==
    [i \in 1..n |->
        LargestAccount(IF i = pos THEN Pub(1) ELSE Holder(i),
                       IF i = n THEN smallest
                       ELSE Some(OrZero(smallest) + (n - i)))]

RankLargestInputs ==
    Failures \cup {ErrorReply, Ok(<<>>)}
        \cup {Ok(LargestList(n, pos, a)) :
                 n \in 1..MaxLargest, pos \in 0..MaxLargest, a \in TopAmounts}

RankAccountInputs ==
    Failures \cup {Ok(<<>>), Ok(<<TokenAccount(Pub(1), None, FALSE)>>)}
        \cup {Ok(<<TokenAccount(Pub(1), a, TRUE)>>) :
                 a \in {None} \cup {Some(n) : n \in 0..MaxUserAmount}}

InitRank ==
    /\ PipeIdle
    /\ BotIdle
    /\ now = PipeClock
    /\ fin \in [largest : RankLargestInputs, accounts : RankAccountInputs]
    /\ fout = None

ApplyRank ==
    /\ fout = None
    /\ fout' = Some(get_holder_rank(fin.largest, fin.accounts))
    /\ UNCHANGED <<now, fin, pipeVars, botVars>>

NextRank == ApplyRank

SpecRank == InitRank /\ [][NextRank]_vars

\* t is the real number n / d (d > 0) with its fraction cut off
IsTrunc(t, n, d) ==
    IF n >= 0 THEN t >= 0 /\ d * t <= n /\ n < d * (t + 1)
    ELSE t <= 0 /\ d * t >= n /\ n > d * (t - 1)

\* both replies arrived and the wallet's first token account can be read
RankInputsUsable ==
    /\ fin.largest.kind = "ok" /\ fin.largest.value # <<>>
    /\ fin.accounts.kind = "ok" /\ fin.accounts.value # <<>>
    /\ fin.accounts.value[1].parsed

\* C10: a wallet whose token account is the entry at 0-based index i of the
\* largest-holders list has rank i + 1; otherwise, with
\* ratio = wallet account balance / balance of the last list entry, both
\* positive, the rank is 20 + trunc((1 - ratio) * 30) for ratio > 0.5,
\* 50 + trunc((1 - ratio) * 200) for 0.1 < ratio <= 0.5 and
\* 250 + trunc((1 - ratio) * 1000) for ratio <= 0.1.
C10_HolderRank ==
    (fout # None /\ RankInputsUsable) =>
        LET largest == fin.largest.value
            account == fin.accounts.value[1]
            ub == IF IsNone(account.uiAmount) THEN 0 ELSE Get(account.uiAmount)
            last == largest[Len(largest)].uiAmount
            st == IF IsNone(last) THEN 0 ELSE Get(last)
            out == Get(fout).val
            listed == {i \in 1..Len(largest) : largest[i].address = account.pubkey}
        IN  /\ ~Get(fout).exc
            /\ ~IsNone(out)
            /\ \A i \in listed : Get(out).rank = Some((i - 1) + 1)
            /\ (listed = {} /\ ub > 0 /\ st > 0) =>
                   /\ ~IsNone(Get(out).rank)
                   /\ LET rank == Get(Get(out).rank)
                      IN  /\ 2 * ub > st => IsTrunc(rank - 20, 30 * (st - ub), st)
                          /\ (10 * ub > st /\ 2 * ub <= st) =>
                                 IsTrunc(rank - 50, 200 * (st - ub), st)
                          /\ 10 * ub <= st =>
                                 IsTrunc(rank - 250, 1000 * (st - ub), st)

\* an unlisted wallet holding exactly half of the smallest listed balance
\* was ranked in the middle tier
C10_Witness ==
    /\ fout # None
    /\ RankInputsUsable
    /\ \A i \in 1..Len(fin.largest.value) : fin.largest.value[i].address # Pub(1)
    /\ fin.accounts.value[1].uiAmount = Some(8)
    /\ fin.largest.value[Len(fin.largest.value)].uiAmount = Some(16)
    /\ Get(Get(fout).val).rank = Some(150)

---------------------------------------------------------------------------
(* Function harness: the rank display of the snapshot *)

MaxRankShown == 1300

\* rank data as get_holder_rank can return it, and ranks around it
RankDisplayInputs ==
    {None, Some(RankData(None, [text |-> "unknown"], FALSE))}
        \cup {Some(RankData(Some(r), [text |-> "est."], FALSE)) :
                 r \in (-MaxRankShown)..MaxRankShown}

InitRankDisplay ==
    /\ PipeIdle
    /\ BotIdle
    /\ now = PipeClock
    /\ fin \in RankDisplayInputs
    /\ fout = None

ApplyRankDisplay ==
    /\ fout = None
    /\ fout' = Some(RankDisplay(fin))
    /\ UNCHANGED <<now, fin, pipeVars, botVars>>

NextRankDisplay == ApplyRankDisplay

SpecRankDisplay == InitRankDisplay /\ [][NextRankDisplay]_vars

TierGlyphs == {"whale", "shark", "dolphin", "fish"}

\* the tiers whose glyph occurs in a display string
TiersIn(s) == {s[i] : i \in DOMAIN s} \cap TierGlyphs

\* the number written after "#", up to the next blank or the end
NumberShown(s) ==
    LET after == SubSeq(s, (CHOOSE i \in DOMAIN s : s[i] = "#") + 1, Len(s))
    IN  ParseInt(SplitFirst(after, " "))

\* C11: every rank maps to exactly one tier: rank <= 10 whale,
\* 10 < rank <= 50 shark, 50 < rank <= 100 dolphin, rank > 100 fish with
\* the marker "~"; a null rank or null rank data gives "Unranked"; the
\* number displayed is the rank itself.
C11_RankTiers ==
    fout # None =>
        LET s == Get(fout)
        IN  IF IsNone(fin) \/ IsNone(Get(fin).rank) THEN s = Unranked
            ELSE LET rank == Get(Get(fin).rank)
                 IN  /\ TiersIn(s) =
                            {IF rank <= 10 THEN "whale"
                             ELSE IF rank <= 50 THEN "shark"
                             ELSE IF rank <= 100 THEN "dolphin"
                             ELSE "fish"}
                     /\ Contains(s, "~") = (rank > 100)
                     /\ NumberShown(s) = Some(rank)

\* rank 10 was shown in the whale tier as number 10
C11_Witness ==
    /\ fout # None
    /\ fin # None
    /\ Get(fin).rank = Some(10)
    /\ Get(fout)[1] = "whale"
    /\ NumberShown(Get(fout)) = Some(10)

---------------------------------------------------------------------------
(* card_generator.generate_flex_card: the seed of the particle field       *)
(*                                                                         *)
(* hash(str) is a 64-bit value salted per process (PYTHONHASHSEED is       *)
(* random unless the environment fixes it): within one process run it is   *)
(* a function of the string, and each run may have another one.  A 64-bit  *)
(* word is written as four 16-bit limbs, most significant first, in two's  *)
(* complement.                                                             *)

CARD_WIDTH == 800

CARD_HEIGHT == 480

SCALE == 2

NumParticles == 35

RenderWallets == {"W", "V"}

\* values the str hash of a run may give a wallet: 11, 2^32 + 11 and -7
HashValues ==
    {<<0, 0, 0, 11>>, <<0, 1, 0, 11>>, <<65535, 65535, 65535, 65529>>}

StrHashes == [RenderWallets -> HashValues]

\* h % 2**32: the low 32 bits
Mod2to32(h) == <<h[3], h[4]>>

\* random.seed(hash(data.get("wallet", "")) % 2**32)
SeedOf(strhash, wallet) == Mod2to32(strhash[wallet])

\* The generator behind random.randint / random.choice is deterministic in
\* its seed; a small congruential generator stands for it here: the k-th
\* number drawn after random.seed(seed).
LcgStart(seed) == (seed[1] + seed[2]) % 65537

Draw(seed, k) == ((LcgStart(seed) + 31 * k) * 75 + 74) % 65537

\* _draw_bg's particle loop: x, y, size, alpha and colour of each particle
ParticleField(seed) ==
    [i \in 1..NumParticles |->
        [x |-> Draw(seed, 5 * i - 4) % (CARD_WIDTH * SCALE + 1),
         y |-> Draw(seed, 5 * i - 3) % (CARD_HEIGHT * SCALE + 1),
         s |-> 2 + (Draw(seed, 5 * i - 2) % 4),
         a |-> 30 + (Draw(seed, 5 * i - 1) % 71),
         c |-> Draw(seed, 5 * i) % 3]]

MaxRuns == 2

InitRender ==
    /\ PipeIdle
    /\ now = PipeClock
    /\ fin = None
    /\ fout = None
    /\ proc \in [run : {1}, strhash : StrHashes]
    /\ cards = {}
    /\ _rate_limit = <<>>
    /\ fetches = <<>>

\* generate_flex_card draws the card of a wallet in the running process
Render ==
    /\ \E w \in RenderWallets :
           LET seed == SeedOf(proc.strhash, w)
           IN  cards' = cards \cup {[wallet |-> w, run |-> proc.run,
                                     seed |-> seed, field |-> ParticleField(seed)]}
    /\ UNCHANGED <<now, fin, fout, pipeVars, proc, _rate_limit, fetches>>

\* the bot process is started again: a new interpreter, a new hash salt
Restart ==
    /\ proc.run < MaxRuns
    /\ \E h \in StrHashes : proc' = [run |-> proc.run + 1, strhash |-> h]
    /\ UNCHANGED <<now, fin, fout, pipeVars, cards, _rate_limit, fetches>>

NextRender == Render \/ Restart

SpecRender == InitRender /\ [][NextRender]_vars

\* C12: any two renders of the same wallet address have the same seed and
\* the same particle field, whichever render, request or process run
\* computes them.
C12_SameWalletSameField ==
    \A a, b \in cards :
        a.wallet = b.wallet => (a.seed = b.seed /\ a.field = b.field)


(***************************************************************************)
(* The per-wallet cooldown of /flex (bot.py).  The handler runs on one     *)
(* event loop: from its entry to its first await (a reply) nothing else    *)
(* runs, so the argument check, the address check, the cooldown check and  *)
(* the write of _rate_limit are one step.  An accepted request then awaits *)
(* the status message before it starts its fetch; other requests are       *)
(* handled in between.                                                     *)
(***************************************************************************)

RATE_LIMIT_SECONDS == 15

Rep(c, n) == [i \in 1..n |-> c]

Base58 ==
    {"1", "2", "3", "4", "5", "6", "7", "8", "9",
     "A", "B", "C", "D", "E", "F", "G", "H",
     "J", "K", "L", "M", "N",
     "P", "Q", "R", "S", "T", "U", "V", "W", "X", "Y", "Z",
     "a", "b", "c", "d", "e", "f", "g", "h", "i", "j", "k",
     "m", "n", "o", "p", "q", "r", "s", "t", "u", "v", "w", "x", "y", "z"}

\* SOLANA_ADDR_RE.match(wallet): ^[1-9A-HJ-NP-Za-km-z]{32,44}$
SOLANA_ADDR_RE(wallet) ==
    /\ Len(wallet) >= 32
    /\ Len(wallet) <= 44
    /\ \A i \in DOMAIN wallet : wallet[i] \in Base58

\* the cooldown test with too short a window
CooldownActiveShort(limit, wallet, t) ==
    /\ wallet \in DOMAIN limit
    /\ t - limit[wallet] < RATE_LIMIT_SECONDS - 1

\* wallet in _rate_limit and now - _rate_limit[wallet] < RATE_LIMIT_SECONDS
CooldownActive(limit, wallet, t) ==
    /\ wallet \in DOMAIN limit
    /\ t - limit[wallet] < RATE_LIMIT_SECONDS

\* _rate_limit[wallet] = now
SetLimit(limit, wallet, t) ==
    [k \in DOMAIN limit \cup {wallet} |-> IF k = wallet THEN t ELSE limit[k]]

\* flex_command from its entry to its first await, called with context.args
\* = args at time t with _rate_limit = limit: the reply it sends, the
\* _rate_limit it leaves and the wallet it goes on to fetch, if any
FlexEntry(args, t, limit) ==
    IF Len(args) < 1
    THEN [reply |-> "help", limit |-> limit, fetch |-> None]
    ELSE LET wallet == Strip(args[1])
         IN  IF ~SOLANA_ADDR_RE(wallet)
             THEN [reply |-> "invalid", limit |-> limit, fetch |-> None]
             ELSE IF CooldownActive(limit, wallet, t)
             THEN [reply |-> "cooldown", limit |-> limit, fetch |-> None]
             ELSE [reply |-> "generating",
                   limit |-> SetLimit(limit, wallet, t),
                   fetch |-> Some(wallet)]

MaxClock == 16

WalletA == Rep("B", 32)

WalletB == Rep("z", 44)

\* context.args of the /flex updates: none, two addresses, and strings that
\* are too short, too long, or hold a character outside base58
ArgLists ==
    {<<>>, <<WalletA>>, <<WalletB>>, <<WalletA, WalletB>>,
     <<Rep("B", 31)>>, <<Rep("z", 45)>>, <<Rep("B", 31) \o <<"O">>>>}

InitCooldown ==
    /\ PipeIdle
    /\ BotIdle
    /\ now = 0
    /\ fin = None
    /\ fout = None

\* time.time() advances
Tick ==
    /\ now < MaxClock
    /\ now' = now + 1
    /\ UNCHANGED <<fin, fout, pipeVars, botVars>>

\* a /flex update reaches the bot
Deliver ==
    /\ fin = None
    /\ \E args \in ArgLists : fin' = Some(args)
    /\ UNCHANGED <<now, fout, pipeVars, botVars>>

\* flex_command runs up to its first await
FlexCheck ==
    /\ fin # None
    /\ LET e == FlexEntry(Get(fin), now, _rate_limit)
       IN  /\ outcome' = e.reply
           /\ _rate_limit' = e.limit
           /\ fetches' =
                  IF IsNone(e.fetch) THEN fetches
                  ELSE Append(fetches, [wallet |-> Get(e.fetch), at |-> now,
                                        pc |-> "status"])
    /\ fin' = None
    /\ UNCHANGED <<now, fout, pc, resp, res, flex, raised, data, rendered,
                   proc, cards>>

\* the status message of an accepted request is sent: get_wallet_data starts
StartFetch ==
    /\ \E i \in DOMAIN fetches :
           /\ fetches[i].pc = "status"
           /\ fetches' = [fetches EXCEPT ![i].pc = "fetching"]
    /\ UNCHANGED <<now, fin, fout, pipeVars, proc, cards, _rate_limit>>

NextCooldown == Tick \/ Deliver \/ FlexCheck \/ StartFetch

SpecCooldown == InitCooldown /\ [][NextCooldown]_vars

Rejections == {"help", "invalid", "cooldown"}

\* two accepted requests for one wallet are RATE_LIMIT_SECONDS apart
FetchesApart ==
    \A i, j \in DOMAIN fetches :
        (i < j /\ fetches[i].wallet = fetches[j].wallet)
            => fetches[j].at - fetches[i].at >= RATE_LIMIT_SECONDS

\* a handled request that is answered with a rejection changes nothing
RejectedStep ==
    (fin # None /\ fin' = None /\ outcome' \in Rejections)
        => UNCHANGED <<_rate_limit, fetches>>

\* C13: any two requests for one wallet that pass the cooldown check, and
\* so start a fetch, are at least RATE_LIMIT_SECONDS apart, however the
\* handlers interleave; a request rejected for missing arguments, by the
\* address check or by the cooldown leaves _rate_limit unchanged and starts
\* no fetch.
C13_Cooldown == [](FetchesApart) /\ [][RejectedStep]_vars

\* two fetches of one wallet have started, a second wallet was fetched in
\* between or around them, and the last request was rejected by the cooldown
C13_Witness ==
    /\ outcome = "cooldown"
    /\ \E i, j, k \in DOMAIN fetches :
           /\ i < j
           /\ fetches[i].wallet = fetches[j].wallet
           /\ fetches[k].wallet # fetches[i].wallet
           /\ fetches[i].pc = "fetching"
           /\ fetches[j].pc = "fetching"


(***************************************************************************)
(* The balance lookup and a JSON-RPC error reply (Spec)                    *)
(***************************************************************************)

\* C14: get_token_balance returns 0 only for a well-formed reply that lists
\* no account or accounts whose amounts sum to zero; a reply that carries an
\* error object and no result is reported as null, and flex_command does not
\* answer it with the no-holdings message.
C14_ErrorReplyIsNull ==
    pc["balance"] = "done" =>
        LET r == resp["balance"][1]
        IN  /\ res["balance"] = Return(Some(0)) => r.kind = "ok"
            /\ r.kind = "error" => res["balance"] = Return(None)
            /\ (r.kind = "error" /\ flex = "done") => outcome # "no_holdings"


(***************************************************************************)
(* The range of an estimated rank (SpecRank)                               *)
(***************************************************************************)

\* C15: a rank that get_holder_rank estimates (the wallet's token account
\* is not in the largest-holders list) is an integer >= 20, whatever
\* positive balances the two reads return, the wallet's balance above the
\* smallest listed balance included.
C15_EstimatedRankAtLeast20 ==
    (fout # None /\ ~Get(fout).exc /\ ~IsNone(Get(fout).val)) =>
        LET out == Get(Get(fout).val)
        IN  (~out.top_20 /\ ~IsNone(out.rank)) => Get(out.rank) >= 20

(***************************************************************************)
(* The remainder parts of a hold-duration string (SpecHold)                *)
(***************************************************************************)

\* the number between the blank and the last character of "<n><a> <m><b>"
SecondNumber(s) ==
    LET i == CHOOSE k \in DOMAIN s : s[k] = " "
    IN  DigitsToNat(SubSeq(s, i + 1, Len(s) - 1))

\* C16: in every hold-duration string the remainder parts are proper: in
\* 'Yy Mm' M is in 0..11, in 'Mm Dd' the months are in 1..12 and D is in
\* 0..29, in 'Dd Hh' D is in 0..29 and H is in 0..23.
C16_ProperRemainders ==
    fout # None =>
        LET s == Get(fout).hold_duration
        IN  /\ IsForm(s, "y", "m") => SecondNumber(s) \in 0..11
            /\ IsForm(s, "m", "d") =>
                   /\ LeadingNumber(s, "m") \in 1..12
                   /\ SecondNumber(s) \in 0..29
            /\ IsForm(s, "d", "h") =>
                   /\ LeadingNumber(s, "d") \in 0..29
                   /\ SecondNumber(s) \in 0..23

===========================================================================
